---- MODULE Spec2Model ----
(***************************************************************************)
(* Model of the MCCI Catena SGPC3 driver (class cSGPC3).                   *)
(*                                                                         *)
(* The session object has three data members besides the bus pointer:      *)
(* m_powerMode, m_tAvail and m_featureSet.  Every public or protected      *)
(* operation of the class is one action; the bus, the millisecond clock    *)
(* and the content of uninitialised storage are inputs chosen by the       *)
(* environment.  32-bit quantities are pairs <<high 16 bits, low 16 bits>> *)
(* so that all arithmetic keeps the width of the C++ types.                *)
(***************************************************************************)
EXTENDS Integers, Sequences, FiniteSets, TLC

VARIABLES
    m_powerMode,    \* cSGPC3::m_powerMode
    m_tAvail,       \* cSGPC3::m_tAvail, a 32-bit millisecond timestamp
    m_featureSet,   \* cSGPC3::m_featureSet, 8 bits
    now,            \* the value millis() returns, 32 bits
    calls,          \* number of operations called so far
    op,             \* the operation called last
    arg,            \* its argument: the command, and the mode or parameter
    result,         \* the Error_t it returned
    bus,            \* the bus and delay events of the last operation, in order
    cmds,           \* the commands the last operation gave to a typed wrapper
    rx,             \* the bytes the transport delivered to the last read request
    stack,          \* what the response buffer of the last operation held
    response,       \* the words written through the caller's output references
    lastBegin       \* the result and the feature-set buffer of the latest begin

vars == <<m_powerMode, m_tAvail, m_featureSet, now, calls, op, arg, result,
          bus, cmds, rx, stack, response, lastBegin>>

----------------------------------------------------------------------------
(* Fixed-width arithmetic *)

\* Bounds of the model.
MaxCalls == 2
GapMs == 700
MaxPolls == 1000

\* 2^16: the weight of the high half of a 32-bit value
W16 == 2 ^ 16

\* a ^ b on 8-bit values, bit by bit
Bit(a, i) == (a \div (2 ^ i)) % 2
Xor8(a, b) ==
      ((Bit(a, 0) + Bit(b, 0)) % 2)
    + ((Bit(a, 1) + Bit(b, 1)) % 2) * 2
    + ((Bit(a, 2) + Bit(b, 2)) % 2) * 4
    + ((Bit(a, 3) + Bit(b, 3)) % 2) * 8
    + ((Bit(a, 4) + Bit(b, 4)) % 2) * 16
    + ((Bit(a, 5) + Bit(b, 5)) % 2) * 32
    + ((Bit(a, 6) + Bit(b, 6)) % 2) * 64
    + ((Bit(a, 7) + Bit(b, 7)) % 2) * 128

\* x & (m << k) on a 16-bit half, for a mask <<m, k>> of contiguous bits
\* (m = 2^j - 1): the bits k .. k+j-1 of x, in place.
AndMask(x, mask) == ((x \div (2 ^ mask[2])) % (mask[1] + 1)) * (2 ^ mask[2])
\* (v << k) truncated to a 16-bit half
Shl16(v, k) == (v * (2 ^ k)) % W16

\* A std::uint32_t as <<high half, low half>>.
U32(n) == <<(n \div W16) % W16, n % W16>>
Add32(a, b) ==
    LET lo == a[2] + b[2]
    IN  <<(a[1] + b[1] + lo \div W16) % W16, lo % W16>>
Sub32(a, b) ==
    LET lo == a[2] - b[2] + W16
    IN  <<(a[1] - b[1] + W16 - 1 + lo \div W16) % W16, lo % W16>>
\* unsigned comparison a < b of two std::uint32_t
Less32(a, b) == a[1] < b[1] \/ (a[1] = b[1] /\ a[2] < b[2])
\* std::int32_t(a): the two's-complement reading of a std::uint32_t
Int32(a) ==
    IF a[1] >= W16 \div 2 THEN (a[1] - W16) * W16 + a[2] ELSE a[1] * W16 + a[2]

----------------------------------------------------------------------------
(* Command constants: cSGPC3_cmds *)

\* The masks, each <<m, k>> for m << k.  Those of the high half of the
\* 32-bit constant are given by their position in that half (k - 16).
kCommandMask == <<16383, 0>>
kParamLenMask == <<1, 0>>
kResponseLenMask == <<7, 1>>
kFeatureMask == <<15, 4>>
kDelayMask == <<255, 8>>

\* Variant: the feature level is shifted into place without being masked.
CommandInit_FeatureUnmasked(code, paramLen, responseLen, delayMs, featureSet) ==
    << (AndMask(Shl16(paramLen \div 3, 0), kParamLenMask)
         + AndMask(Shl16(responseLen \div 3, 1), kResponseLenMask)
         + Shl16(featureSet, 4)
         + AndMask(Shl16(delayMs, 8), kDelayMask)) % W16,
       AndMask(code, kCommandMask) >>

\* Variant: the lengths are stored in bytes, not in words.
CommandInit_LengthInBytes(code, paramLen, responseLen, delayMs, featureSet) ==
    << AndMask(Shl16(paramLen, 0), kParamLenMask)
         + AndMask(Shl16(responseLen, 1), kResponseLenMask)
         + AndMask(Shl16(featureSet, 4), kFeatureMask)
         + AndMask(Shl16(delayMs, 8), kDelayMask),
       AndMask(code, kCommandMask) >>

CommandInit(code, paramLen, responseLen, delayMs, featureSet) ==
    <<   AndMask(Shl16(paramLen \div 3, 0), kParamLenMask)
       + AndMask(Shl16(responseLen \div 3, 1), kResponseLenMask)
       + AndMask(Shl16(featureSet, 4), kFeatureMask)
       + AndMask(Shl16(delayMs, 8), kDelayMask),
       AndMask(code, kCommandMask) >>

getCommand(c) == AndMask(c[2], kCommandMask)
getParameterLength(c) == (AndMask(c[1], kParamLenMask) \div (2 ^ 0)) % 256
getResponseLength(c) == (AndMask(c[1], kResponseLenMask) \div (2 ^ 1)) % 256
getFeatureSet(c) == (AndMask(c[1], kFeatureMask) \div (2 ^ 4)) % 256
getDelayMs(c) == AndMask(c[1], kDelayMask) \div (2 ^ 8)

\* enum class Command_t
measure_tvoc == CommandInit(8200, 0, 3, 50, 0)
get_tvoc_baseline == CommandInit(8213, 0, 3, 10, 0)
set_tvoc_baseline == CommandInit(8222, 3, 0, 10, 0)
get_feature_set_version == CommandInit(8239, 0, 3, 10, 0)
measure_test == CommandInit(8242, 0, 3, 220, 0)
measure_tvoc_and_raw == CommandInit(8262, 0, 6, 50, 0)
measure_raw == CommandInit(8269, 0, 3, 50, 0)
set_absolute_humidity == CommandInit(8289, 3, 0, 10, 6)
set_power_mode == CommandInit(8351, 3, 0, 10, 6)
tvoc_init_continuous == CommandInit(8366, 0, 0, 10, 0)
get_tvoc_inceptive_baseline == CommandInit(8371, 0, 3, 10, 5)
get_serial_id == CommandInit(13954, 0, 9, 1, 0)

Command_t ==
    { measure_tvoc, get_tvoc_baseline, set_tvoc_baseline, get_feature_set_version,
      measure_test, measure_tvoc_and_raw, measure_raw, set_absolute_humidity,
      set_power_mode, tvoc_init_continuous, get_tvoc_inceptive_baseline,
      get_serial_id }

----------------------------------------------------------------------------
(* Checksum: cSGPC3::crc *)

\* Variant: the table entry of nibble 1 is 0x30.
crcTable_Entry1Off ==
    <<0, 48, 98, 83, 196, 245, 166, 151, 185, 136, 219, 234, 125, 76, 31, 46>>

crcTable ==
    << 0, 49, 98, 83, 196, 245, 166, 151,
       185, 136, 219, 234, 125, 76, 31, 46 >>

\* Variant: the second step leaves the low nibble of the byte out.
crcByte_HighNibbleOnly(crc8, b) ==
    LET p1 == Xor8(b, crc8) \div 16
        c1 == Xor8((crc8 * 16) % 256, crcTable[p1 + 1])
    IN  Xor8((c1 * 16) % 256, crcTable[(c1 \div 16) + 1])

\* One pass of the loop body: the two nibble steps for byte b.
crcByte(crc8, b) ==
    LET p1 == Xor8(b, crc8) \div 16
        c1 == Xor8((crc8 * 16) % 256, crcTable[p1 + 1])
        p2 == Xor8(c1 \div 16, b) % 16
    IN  Xor8((c1 * 16) % 256, crcTable[p2 + 1])

\* Variant: the loop starts from 0 when there is nothing to sum.
crc_EmptyIsZero(buf, crc8) ==
    IF buf = <<>> THEN 0
    ELSE IF Len(buf) = 1 THEN crcByte(crc8, buf[1])
    ELSE crcByte(crcByte(crc8, buf[1]), buf[2])

RECURSIVE crc(_, _)
crc(buf, crc8) ==
    IF buf = <<>> THEN crc8 ELSE crc(Tail(buf), crcByte(crc8, Head(buf)))

\* The default of the crc8 argument of crc(); its declaration is not among the sources.
crcDefaultSeed == 255

\* Big-endian 16-bit accessors used by the wrappers.
getbe16(buf) == buf[1] * 256 + buf[2]
putbe16(v) == <<(v \div 256) % 256, v % 256>>

\* Decoding of the feature-set word returned by get_feature_set_version.
ProductType_SGPC3 == 1
featureSet_getProductType(featureSet) == (featureSet \div 4096) % 16
featureSet_getProductVersion(featureSet) == featureSet % 256

----------------------------------------------------------------------------
(* Session: cSGPC3 *)

kAddress == 88
kTpuMs == 600

\* enum class PowerMode_t
UltraLow == 0
Low == 1
PowerMode_t == {UltraLow, Low}

isSuccess(e) == e = "Success"

\* Variant: a command is refused at its own feature level too.
isSupported_AtLevelRefused(featureSet, c) ==
    IF featureSet <= getFeatureSet(c) THEN "NotSupported" ELSE "Success"

isSupported(featureSet, c) ==
    IF featureSet < getFeatureSet(c) THEN "NotSupported" ELSE "Success"

\* The session fields, the clock and the events of the operation in progress.
\* s.bus lists the bus writes, delays and read requests; s.cmds lists the
\* commands handed to a typed wrapper with the wrapper's result.
Event(kind, t, avail, cmd, bytes, status, n) ==
    [kind |-> kind, t |-> t, avail |-> avail, addr |-> kAddress, cmd |-> cmd,
     bytes |-> bytes, status |-> status, n |-> n]

Return(s, r, out) == [s |-> s, result |-> r, response |-> out]

\* Variant: a reset notice also forgets the feature level.
handleChipReset_ClearsFeatureSet(s, when) ==
    [s EXCEPT !.powerMode = Low, !.tAvail = Add32(when, U32(kTpuMs)),
              !.featureSet = 0]

handleChipReset(s, when) ==
    [s EXCEPT !.powerMode = Low, !.tAvail = Add32(when, U32(kTpuMs))]

\* Variant: the unsigned difference is compared with >= 0, which it always is.
waitCond_UnsignedNotBelow(tAvail, tNow) ==
    (IF ~Less32(Sub32(tAvail, tNow), U32(0)) THEN 1 ELSE 0) # 0

\* Variant: the difference is cast to std::int32_t and the loop waits while
\* m_tAvail is ahead of the reading.
waitCond_SignedAhead(tAvail, tNow) == Int32(Sub32(tAvail, tNow)) > 0

\* The condition of the wait loop of sendCommand:
\*     std::int32_t(this->m_tAvail - tNow < 0)
\* The comparison is made on the unsigned difference and its truth value is
\* what the cast converts.
waitCond(tAvail, tNow) ==
    (IF Less32(Sub32(tAvail, tNow), U32(0)) THEN 1 ELSE 0) # 0

\* The wait loop: millis() is read again until the condition is false; the
\* reading that ends the loop is the one the command is issued at.
RECURSIVE busWait(_, _, _)
busWait(tAvail, tNow, polls) ==
    IF waitCond(tAvail, tNow) /\ polls > 0
    THEN busWait(tAvail, Add32(tNow, U32(1)), polls - 1)
    ELSE tNow

\* Variant: the guard millisecond is left out.
nextAvail_NoGuardMs(tNow, delayMs) == Add32(tNow, U32(delayMs))

\* m_tAvail as sendCommand updates it
nextAvail(tNow, delayMs) == Add32(Add32(tNow, U32(delayMs)), U32(1))

\* Variant: the command is written low byte first.
commandBytes_LowByteFirst(cmd, nParam, pParamBytes) ==
    <<cmd % 256, (cmd \div 256) % 256>> \o
    (IF pParamBytes # <<>> THEN SubSeq(pParamBytes, 1, 3 * nParam) ELSE <<>>)

\* The bytes of the write transaction: the command, then the parameters.
commandBytes(cmd, nParam, pParamBytes) ==
    <<(cmd \div 256) % 256, cmd % 256>> \o
    (IF pParamBytes # <<>> THEN SubSeq(pParamBytes, 1, 3 * nParam) ELSE <<>>)

\* Variant: issuing a command puts the recorded power mode back to Low.
sendWrite_ResetsPowerMode(s, cmd, bytes, delayMs, tNow, i2c_result) ==
    [s EXCEPT
       !.now = tNow,
       !.hung = @ \/ waitCond(s.tAvail, tNow),
       !.tAvail = nextAvail(tNow, delayMs),
       !.powerMode = Low,
       !.bus = Append(@, Event("write", tNow, s.tAvail, cmd, bytes, i2c_result,
                               Len(bytes)))]

\* The write transaction, ended by endTransmission(), and the update of m_tAvail.
sendWrite(s, cmd, bytes, delayMs, tNow, i2c_result) ==
    [s EXCEPT
       !.now = tNow,
       !.hung = @ \/ waitCond(s.tAvail, tNow),
       !.tAvail = nextAvail(tNow, delayMs),
       !.bus = Append(@, Event("write", tNow, s.tAvail, cmd, bytes, i2c_result,
                               Len(bytes)))]

\* Variant: delay() returns at once.
sendDelay_NoSleep(s, cmd, delayMs) ==
    [s EXCEPT
       !.bus = Append(@, Event("delay", s.now, s.tAvail, cmd, <<>>, 0, delayMs))]

\* delay(getDelayMs(c))
sendDelay(s, cmd, delayMs) ==
    [s EXCEPT
       !.now = Add32(@, U32(delayMs)),
       !.bus = Append(@, Event("delay", s.now, s.tAvail, cmd, <<>>, 0, delayMs))]

\* Variant: the read asks for one byte per response word.
sendRead_WordCount(s, cmd, nResult, io) ==
    [s EXCEPT
       !.rx = SubSeq(io.data, 1, io.nReadFrom),
       !.bus = Append(@, Event("read", s.now, s.tAvail, cmd, <<>>, io.nReadFrom,
                               nResult))]

\* requestFrom(kAddress, nResult * 3); nothing is stored through pResultBytes.
sendRead(s, cmd, nResult, io) ==
    [s EXCEPT
       !.rx = SubSeq(io.data, 1, io.nReadFrom),
       !.bus = Append(@, Event("read", s.now, s.tAvail, cmd, <<>>, io.nReadFrom,
                               nResult * 3))]

\* Variant: a short read is asked for once more.
sendFinish_RetryRead(s1, cmd, delayMs, nResult, io) ==
    IF io.i2c_result # 0 THEN Return(s1, "WriteError", <<>>)
    ELSE IF nResult = 0
    THEN Return(sendDelay(s1, cmd, delayMs), "Success", <<>>)
    ELSE IF io.nReadFrom # nResult * 3
    THEN Return(sendRead(sendRead(sendDelay(s1, cmd, delayMs), cmd, nResult, io),
                         cmd, nResult, io),
                "ReadError", <<>>)
    ELSE Return(sendRead(sendDelay(s1, cmd, delayMs), cmd, nResult, io),
                "Success", <<>>)

\* Variant: the response is asked for before the post-issue delay is slept.
sendFinish_ReadBeforeDelay(s1, cmd, delayMs, nResult, io) ==
    IF io.i2c_result # 0 THEN Return(s1, "WriteError", <<>>)
    ELSE IF nResult = 0
    THEN Return(sendDelay(s1, cmd, delayMs), "Success", <<>>)
    ELSE IF io.nReadFrom # nResult * 3
    THEN Return(sendDelay(sendRead(s1, cmd, nResult, io), cmd, delayMs),
                "ReadError", <<>>)
    ELSE Return(sendDelay(sendRead(s1, cmd, nResult, io), cmd, delayMs),
                "Success", <<>>)

\* Variant: the post-issue delay is slept before the write status is looked at.
sendFinish_DelayBeforeStatus(s1, cmd, delayMs, nResult, io) ==
    IF io.i2c_result # 0
    THEN Return(sendDelay(s1, cmd, delayMs), "WriteError", <<>>)
    ELSE IF nResult = 0
    THEN Return(sendDelay(s1, cmd, delayMs), "Success", <<>>)
    ELSE IF io.nReadFrom # nResult * 3
    THEN Return(sendRead(sendDelay(s1, cmd, delayMs), cmd, nResult, io),
                "ReadError", <<>>)
    ELSE Return(sendRead(sendDelay(s1, cmd, delayMs), cmd, nResult, io),
                "Success", <<>>)

\* The part of sendCommand after the write.
sendFinish(s1, cmd, delayMs, nResult, io) ==
    IF io.i2c_result # 0 THEN Return(s1, "WriteError", <<>>)
    ELSE IF nResult = 0
    THEN Return(sendDelay(s1, cmd, delayMs), "Success", <<>>)
    ELSE IF io.nReadFrom # nResult * 3
    THEN Return(sendRead(sendDelay(s1, cmd, delayMs), cmd, nResult, io),
                "ReadError", <<>>)
    ELSE Return(sendRead(sendDelay(s1, cmd, delayMs), cmd, nResult, io),
                "Success", <<>>)

sendIssue(s, cmd, bytes, delayMs, nResult, tNow, io) ==
    sendFinish(sendWrite(s, cmd, bytes, delayMs, tNow, io.i2c_result),
               cmd, delayMs, nResult, io)

\* sendCommand(c, pParamBytes, pResultBytes).  io.i2c_result is what
\* endTransmission() returns and io.nReadFrom what requestFrom() returns.
sendCommand(s, c, pParamBytes, io) ==
    sendIssue(s, getCommand(c),
              commandBytes(getCommand(c), getParameterLength(c), pParamBytes),
              getDelayMs(c), getResponseLength(c),
              busWait(s.tAvail, s.now, MaxPolls), io)

sendCommandBare(s, c, io) == sendCommand(s, c, <<>>, io)

paramGroup(paramBuf) == paramBuf \o <<crc(paramBuf, crcDefaultSeed)>>

sendCommandWithParam(s, c, param, io) ==
    sendCommand(s, c, paramGroup(putbe16(param)), io)

\* The checksum of the k-th group of a response buffer is wrong.
badGroup(responseBuf, k) ==
    crc(SubSeq(responseBuf, 3 * k - 2, 3 * k - 1), crcDefaultSeed)
        # responseBuf[3 * k]

word(responseBuf, k) == getbe16(SubSeq(responseBuf, 3 * k - 2, 3 * k - 1))

Checked(r, responseBuf) == [r.s EXCEPT !.stack = responseBuf]

\* The part of sendCommandWithResponse after sendCommand has returned r.
\* responseBuf is a local array that sendCommand does not fill: its content
\* is whatever the storage held.
oneResponse(r, responseBuf) ==
    IF ~isSuccess(r.result) THEN Return(r.s, r.result, <<>>)
    ELSE IF badGroup(responseBuf, 1)
    THEN Return(Checked(r, responseBuf), "BadCRC", <<>>)
    ELSE Return(Checked(r, responseBuf), "Success", <<getbe16(responseBuf)>>)

sendCommandWithResponse(s, c, io) ==
    oneResponse(sendCommand(s, c, <<>>, io), io.buf)

twoResponses(r, responseBuf) ==
    IF ~isSuccess(r.result) THEN Return(r.s, r.result, <<>>)
    ELSE IF badGroup(responseBuf, 1)
    THEN Return(Checked(r, responseBuf), "BadCRC", <<>>)
    ELSE IF badGroup(responseBuf, 2)
    THEN Return(Checked(r, responseBuf), "BadCRC", <<>>)
    ELSE Return(Checked(r, responseBuf), "Success",
                <<getbe16(responseBuf), word(responseBuf, 2)>>)

sendCommandWithTwoResponses(s, c, io) ==
    twoResponses(sendCommand(s, c, <<>>, io), io.buf)

\* The 64-bit response is given as its four 16-bit limbs, highest first.
threeResponses(r, responseBuf) ==
    IF ~isSuccess(r.result) THEN Return(r.s, r.result, <<>>)
    ELSE IF badGroup(responseBuf, 1)
    THEN Return(Checked(r, responseBuf), "BadCRC", <<>>)
    ELSE IF badGroup(responseBuf, 2)
    THEN Return(Checked(r, responseBuf), "BadCRC", <<>>)
    ELSE IF badGroup(responseBuf, 3)
    THEN Return(Checked(r, responseBuf), "BadCRC", <<>>)
    ELSE Return(Checked(r, responseBuf), "Success",
                <<0, getbe16(responseBuf), word(responseBuf, 2),
                  word(responseBuf, 3)>>)

sendCommandWithThreeResponses(s, c, io) ==
    threeResponses(sendCommand(s, c, <<>>, io), io.buf)

\* A typed wrapper: the capability check eSupported, and the transaction r
\* that is made when the check succeeds.  The wrapper's command and result
\* are noted in cmds.
Logged(s, c, r) == [s EXCEPT !.cmds = Append(@, <<c, r>>)]

\* Variant: the transaction is run before the capability check is looked at.
Wrapped_ExecutorFirst(s, c, eSupported, r) ==
    IF ~isSuccess(eSupported)
    THEN Return(Logged(r.s, c, eSupported), eSupported, <<>>)
    ELSE Return(Logged(r.s, c, r.result), r.result, r.response)

Wrapped(s, c, eSupported, r) ==
    IF ~isSuccess(eSupported)
    THEN Return(Logged(s, c, eSupported), eSupported, <<>>)
    ELSE Return(Logged(r.s, c, r.result), r.result, r.response)

sendSynchronous(s, c, io) ==
    Wrapped(s, c, isSupported(s.featureSet, c), sendCommandBare(s, c, io))

sendSynchronousParam(s, c, param, io) ==
    Wrapped(s, c, isSupported(s.featureSet, c),
            sendCommandWithParam(s, c, param, io))

sendAndGetSynchronous(s, c, io) ==
    Wrapped(s, c, isSupported(s.featureSet, c), sendCommandWithResponse(s, c, io))

sendAndGetSynchronous2(s, c, io) ==
    Wrapped(s, c, isSupported(s.featureSet, c),
            sendCommandWithTwoResponses(s, c, io))

sendAndGetSynchronous3(s, c, io) ==
    Wrapped(s, c, isSupported(s.featureSet, c),
            sendCommandWithThreeResponses(s, c, io))

\* The method cSGPC3::tvoc_init_continuous(); the command constant has the name.
cSGPC3_tvoc_init_continuous(s, io) ==
    IF isSuccess(isSupported(s.featureSet, tvoc_init_continuous))
    THEN sendSynchronous(s, tvoc_init_continuous, io)
    ELSE Return(s, isSupported(s.featureSet, tvoc_init_continuous), <<>>)

measure_tvoc_synchronous(s, io) == sendAndGetSynchronous(s, measure_tvoc, io)

\* Variant: the power mode is recorded whatever the command returned.
powerModeSet_Always(r, mode) ==
    Return([r.s EXCEPT !.powerMode = mode], r.result, <<>>)

\* The part of set_power_mode_synchronous after the command has returned r.
powerModeSet(r, mode) ==
    IF isSuccess(r.result)
    THEN Return([r.s EXCEPT !.powerMode = mode], r.result, <<>>)
    ELSE r

set_power_mode_synchronous(s, mode, io) ==
    powerModeSet(sendSynchronousParam(s, set_power_mode, mode, io), mode)

\* begin(mode), in the order of its statements; ios are the transport's
\* answers to its commands, in order.
\* The start of the sensor, whose result is what begin returns.
beginStart(r2, ios) == cSGPC3_tvoc_init_continuous(r2.s, ios[3])

\* The mode is set; its result is overwritten by the next statement.
beginMode(s, mode, ios) ==
    beginStart(set_power_mode_synchronous(s, mode, ios[2]), ios)

\* Variant: the power mode is set before m_featureSet is given the version.
beginCheck_FeatureSetLate(s, featureSet, productVersion, mode, ios) ==
    IF featureSet_getProductType(featureSet) # ProductType_SGPC3
    THEN Return(s, "WrongDeviceType", <<>>)
    ELSE IF productVersion < 6 THEN Return(s, "WrongDeviceType", <<>>)
    ELSE beginMode(s, mode, ios)

\* Variant: product versions from 3 on are accepted.
beginCheck_AcceptsVersion3(s, featureSet, productVersion, mode, ios) ==
    IF featureSet_getProductType(featureSet) # ProductType_SGPC3
    THEN Return(s, "WrongDeviceType", <<>>)
    ELSE IF productVersion < 3 THEN Return(s, "WrongDeviceType", <<>>)
    ELSE beginMode([s EXCEPT !.featureSet = productVersion], mode, ios)

\* The checks of the feature-set word, s being the session after
\* m_featureSet = 0.
beginCheck(s, featureSet, productVersion, mode, ios) ==
    IF featureSet_getProductType(featureSet) # ProductType_SGPC3
    THEN Return(s, "WrongDeviceType", <<>>)
    ELSE IF productVersion < 6 THEN Return(s, "WrongDeviceType", <<>>)
    ELSE beginMode([s EXCEPT !.featureSet = productVersion], mode, ios)

\* Variant: m_featureSet is not cleared before the discovery result is looked at.
beginVersion_NoClear(r1, mode, ios) ==
    IF ~isSuccess(r1.result)
    THEN Return(r1.s, r1.result, <<>>)
    ELSE beginCheck(r1.s, r1.response[1],
                    featureSet_getProductVersion(r1.response[1]), mode, ios)

beginVersion(r1, mode, ios) ==
    IF ~isSuccess(r1.result)
    THEN Return([r1.s EXCEPT !.featureSet = 0], r1.result, <<>>)
    ELSE beginCheck([r1.s EXCEPT !.featureSet = 0], r1.response[1],
                    featureSet_getProductVersion(r1.response[1]), mode, ios)

begin(s, mode, ios) ==
    beginVersion(sendAndGetSynchronous(handleChipReset(s, s.now),
                                       get_feature_set_version, ios[1]),
                 mode, ios)

----------------
(* Environment *)

\* A response group: a big-endian word and a third byte, its checksum or not.
Good(w) == putbe16(w) \o <<crc(putbe16(w), crcDefaultSeed)>>
Bad(w) == putbe16(w) \o <<(crc(putbe16(w), crcDefaultSeed) + 1) % 256>>

\* What the storage of a response buffer can hold when it is read.
\* 0x1006 decodes to type SGPC3, version 6; 0x1003 to type SGPC3, version 3;
\* 0xBEEF to another product type.
StackGroups == {Good(4102), Good(4099), Good(48879), Bad(48879)}
\* What the device can put on the bus for one response word.
RxGroups == {Good(48879), Bad(48879)}

RECURSIVE Groups(_, _)
Groups(S, n) ==
    IF n = 0 THEN {<<>>} ELSE {g \o rest : g \in S, rest \in Groups(S, n - 1)}

\* Buffers of n groups in which at most one group differs from the first
\* choice, and that group is the k-th of the alternatives.
OneOff(first, others, n) ==
    {[i \in 1..n |-> first]} \cup
    {[i \in 1..n |-> IF i = k THEN g ELSE first] : k \in 1..n, g \in others}

RECURSIVE Flatten(_)
Flatten(groups) ==
    IF groups = <<>> THEN <<>> ELSE Head(groups) \o Flatten(Tail(groups))

StackBufs(n) ==
    IF n <= 1 THEN Groups(StackGroups, n)
    ELSE {Flatten(b) : b \in OneOff(Good(4102), {Good(48879), Bad(48879)}, n)}

RxData(n) ==
    IF n <= 1 THEN Groups(RxGroups, n)
    ELSE {Flatten(b) : b \in OneOff(Good(48879), {Bad(48879)}, n)}

IO(i2c_result, nReadFrom, data, buf) ==
    [i2c_result |-> i2c_result, nReadFrom |-> nReadFrom, data |-> data, buf |-> buf]

\* The answers of the transport and of the storage to command c: the write
\* fails; or it succeeds and the read, if there is one, is short or complete.
IOsFor(c) ==
    LET n == getResponseLength(c)
    IN  {IO(2, 0, <<>>, <<>>)} \cup
        (IF n = 0 THEN {IO(0, 0, <<>>, <<>>)}
         ELSE {IO(0, k, Flatten([i \in 1..n |-> Good(48879)]), <<>>) :
                   k \in {0, 3 * n - 1}} \cup
              {IO(0, 3 * n, d, b) : d \in RxData(n), b \in StackBufs(n)})

IOs(c) == IOsFor(c)

Params == {1, 48879}

----------------------------------------------------------------------------
(* State machine *)

\* The constructor initialises m_wire only: the three other members hold
\* whatever the object's storage held.
Init ==
    /\ m_powerMode \in PowerMode_t
    /\ m_tAvail \in {U32(0), U32(16)}
    /\ m_featureSet \in {0, 5, 6}
    /\ now \in {U32(1000), <<65535, 65520>>}
    /\ calls = 0
    /\ op = "none"
    /\ arg = <<>>
    /\ result = "none"
    /\ bus = <<>>
    /\ cmds = <<>>
    /\ rx = <<>>
    /\ stack = <<>>
    /\ response = <<>>
    /\ lastBegin = <<>>

\* The session as an operation finds it.
Entry ==
    [powerMode |-> m_powerMode, tAvail |-> m_tAvail, featureSet |-> m_featureSet,
     now |-> now, hung |-> FALSE,
     bus |-> <<>>, cmds |-> <<>>, rx |-> <<>>, stack |-> <<>>]

\* An operation that returned r.
Returned(name, a, r) ==
    /\ ~r.s.hung
    /\ calls' = calls + 1
    /\ op' = name
    /\ arg' = a
    /\ result' = r.result
    /\ response' = r.response
    /\ m_powerMode' = r.s.powerMode
    /\ m_tAvail' = r.s.tAvail
    /\ m_featureSet' = r.s.featureSet
    /\ now' = r.s.now
    /\ bus' = r.s.bus
    /\ cmds' = r.s.cmds
    /\ rx' = r.s.rx
    /\ stack' = r.s.stack
    /\ lastBegin' = IF name = "begin" THEN <<r.result, r.s.stack>> ELSE lastBegin

Call(name, a, ret) == \E r \in {ret} : Returned(name, a, r)

(* The public operations *)

\* The discovery command answered by io1 lets begin go on to its two other
\* commands; when it does not, they are never sent and the transport has
\* nothing to answer.
Proceeds(io1) ==
    /\ io1.i2c_result = 0
    /\ io1.nReadFrom = 3
    /\ ~badGroup(io1.buf, 1)
    /\ featureSet_getProductType(word(io1.buf, 1)) = ProductType_SGPC3
    /\ featureSet_getProductVersion(word(io1.buf, 1)) >= 6
IOsAfter(io1, c) == IF Proceeds(io1) THEN IOs(c) ELSE {IO(0, 0, <<>>, <<>>)}

Begin ==
    /\ calls < MaxCalls
    /\ \E mode \in PowerMode_t, io1 \in IOs(get_feature_set_version) :
           \E io2 \in IOsAfter(io1, set_power_mode),
              io3 \in IOsAfter(io1, tvoc_init_continuous) :
               Call("begin", <<mode>>, begin(Entry, mode, <<io1, io2, io3>>))

\* when defaults to millis(); a caller may pass an earlier time.
HandleChipReset ==
    /\ calls < MaxCalls
    /\ \E back \in {0, GapMs} :
           LET when == Sub32(now, U32(back))
           IN  Call("handleChipReset", <<when>>,
                    Return(handleChipReset(Entry, when), "none", <<>>))

TvocInitContinuous ==
    /\ calls < MaxCalls
    /\ \E io \in IOs(tvoc_init_continuous) :
           Call("tvoc_init_continuous", <<tvoc_init_continuous>>,
                cSGPC3_tvoc_init_continuous(Entry, io))

MeasureTvoc ==
    /\ calls < MaxCalls
    /\ \E io \in IOs(measure_tvoc) :
           Call("measure_tvoc_synchronous", <<measure_tvoc>>,
                measure_tvoc_synchronous(Entry, io))

SetPowerMode ==
    /\ calls < MaxCalls
    /\ \E mode \in PowerMode_t, io \in IOs(set_power_mode) :
           Call("set_power_mode_synchronous", <<set_power_mode, mode>>,
                set_power_mode_synchronous(Entry, mode, io))

\* The application lets GapMs milliseconds pass before its next call.
Elapse ==
    /\ calls < MaxCalls
    /\ Call("delay", <<GapMs>>,
            Return([Entry EXCEPT !.now = Add32(now, U32(GapMs))], "none", <<>>))

Next ==
    \/ Begin
    \/ HandleChipReset
    \/ TvocInitContinuous
    \/ MeasureTvoc
    \/ SetPowerMode
    \/ Elapse

Spec == Init /\ [][Next]_vars

(* The typed wrappers, protected members: one call on a session in any state *)

SendSynchronous ==
    /\ calls = 0
    /\ \E c \in {x \in Command_t :
                     getParameterLength(x) = 0 /\ getResponseLength(x) = 0} :
           \E io \in IOs(c) :
               Call("sendSynchronous", <<c>>, sendSynchronous(Entry, c, io))

SendSynchronousParam ==
    /\ calls = 0
    /\ \E param \in Params,
          c \in {x \in Command_t :
                     getParameterLength(x) = 1 /\ getResponseLength(x) = 0} :
           \E io \in IOs(c) :
               Call("sendSynchronousParam", <<c, param>>,
                    sendSynchronousParam(Entry, c, param, io))

SendAndGetSynchronous ==
    /\ calls = 0
    /\ \E c \in {x \in Command_t :
                     getParameterLength(x) = 0 /\ getResponseLength(x) = 1} :
           \E io \in IOs(c) :
               Call("sendAndGetSynchronous", <<c>>,
                    sendAndGetSynchronous(Entry, c, io))

SendAndGetSynchronous2 ==
    /\ calls = 0
    /\ \E c \in {x \in Command_t :
                     getParameterLength(x) = 0 /\ getResponseLength(x) = 2} :
           \E io \in IOs(c) :
               Call("sendAndGetSynchronous2", <<c>>,
                    sendAndGetSynchronous2(Entry, c, io))

SendAndGetSynchronous3 ==
    /\ calls = 0
    /\ \E c \in {x \in Command_t :
                     getParameterLength(x) = 0 /\ getResponseLength(x) = 3} :
           \E io \in IOs(c) :
               Call("sendAndGetSynchronous3", <<c>>,
                    sendAndGetSynchronous3(Entry, c, io))

NextWrappers ==
    \/ SendSynchronous
    \/ SendSynchronousParam
    \/ SendAndGetSynchronous
    \/ SendAndGetSynchronous2
    \/ SendAndGetSynchronous3

SpecWrappers == Init /\ [][NextWrappers]_vars

(* The static functions: one application to arguments of the caller's choice *)

OpcodeSamples == {0, 1, 255, 256, 8200, 13954, 16383}
ParamWordCounts == 0..1
ResponseWordCounts == 0..3
DelaySamples == {0, 1, 10, 50, 220, 255}
FeatureLevels == 0..15
Seeds == 0..255
ByteSamples == {0, 1, 128, 190, 239, 255}
CrcInputs == {<<>>} \cup {<<a>> : a \in ByteSamples}
                  \cup {<<a, b>> : a \in ByteSamples, b \in ByteSamples}

\* The five fields read back from a descriptor.
Describe(c) ==
    <<getCommand(c), getParameterLength(c), getResponseLength(c),
      getDelayMs(c), getFeatureSet(c)>>

\* A session of static storage duration, of which no member function is called.
InitFunctions ==
    /\ m_powerMode = UltraLow
    /\ m_tAvail = U32(0)
    /\ m_featureSet = 0
    /\ now = U32(1000)
    /\ calls = 0
    /\ op = "none"
    /\ arg = <<>>
    /\ result = "none"
    /\ bus = <<>>
    /\ cmds = <<>>
    /\ rx = <<>>
    /\ stack = <<>>
    /\ response = <<>>
    /\ lastBegin = <<>>

Applied(name, a, out) ==
    /\ calls' = calls + 1
    /\ op' = name
    /\ arg' = a
    /\ response' = out
    /\ UNCHANGED <<m_powerMode, m_tAvail, m_featureSet, now, result, bus, cmds,
                   rx, stack, lastBegin>>

DescribeCommand ==
    /\ calls = 0
    /\ \E code \in OpcodeSamples, pw \in ParamWordCounts,
          rw \in ResponseWordCounts, d \in DelaySamples, f \in FeatureLevels :
           Applied("CommandInit", <<code, pw, rw, d, f>>,
                   Describe(CommandInit(code, 3 * pw, 3 * rw, d, f)))

Checksum ==
    /\ calls = 0
    /\ \E buf \in CrcInputs, seed \in Seeds :
           Applied("crc", <<buf, seed>>, <<crc(buf, seed)>>)

\* CommandInit with arguments of the full width of its parameter types:
\* a std::uint16_t code and four std::uint8_t values, legal or not.
CodeSamples16 == {0, 8200, 16383, 16384, 40975, 65535}
LengthSamples8 == {0, 2, 3, 5, 6, 9, 24, 27, 255}
DelaySamples8 == {0, 10, 128, 255}
FeatureSamples8 == {0, 6, 15, 16, 17, 255}

DescribeAny ==
    /\ calls = 0
    /\ \E code \in CodeSamples16, paramLen \in LengthSamples8,
          responseLen \in LengthSamples8, d \in DelaySamples8,
          f \in FeatureSamples8 :
           Applied("CommandInit(any)", <<code, paramLen, responseLen, d, f>>,
                   Describe(CommandInit(code, paramLen, responseLen, d, f)))

NextFunctions ==
    \/ DescribeCommand
    \/ DescribeAny
    \/ Checksum

SpecFunctions == InitFunctions /\ [][NextFunctions]_vars

(* One sendCommand call, statement by statement.  op is the position in the
   call and arg holds the command, the clock reading and m_tAvail at entry. *)

AvailSamples == {U32(0), U32(16), U32(1600), <<32768, 0>>, <<65535, 65535>>}

InitSend ==
    /\ m_powerMode = Low
    /\ m_tAvail \in AvailSamples
    /\ m_featureSet = 6
    /\ now \in {U32(1000), <<65535, 65520>>}
    /\ calls = 0
    /\ op = "none"
    /\ arg = <<>>
    /\ result = "none"
    /\ bus = <<>>
    /\ cmds = <<>>
    /\ rx = <<>>
    /\ stack = <<>>
    /\ response = <<>>
    /\ lastBegin = <<>>

\* The session in the middle of the call.
Running == [Entry EXCEPT !.bus = bus, !.rx = rx]

\* The parameter bytes handed to sendCommand for command c: none, or the
\* group of parameter 1 as sendCommandWithParam prepares it.
ParamBytesFor(c) ==
    IF getParameterLength(c) = 0 THEN <<>> ELSE <<0, 1, 176>>

\* The bytes the device holds ready for a read: the word 0xBEEF and its
\* checksum, three times.
DeviceBytes == <<190, 239, 146, 190, 239, 146, 190, 239, 146>>

Step(pos, s, res) ==
    /\ op' = pos
    /\ m_tAvail' = s.tAvail
    /\ now' = s.now
    /\ bus' = s.bus
    /\ rx' = s.rx
    /\ result' = res
    /\ calls' = IF pos = "returned" THEN calls + 1 ELSE calls
    /\ UNCHANGED <<m_powerMode, m_featureSet, arg, cmds, stack, response,
                   lastBegin>>

\* cmd = getCommand(c); tNow = millis()
SendEnter ==
    /\ op = "none"
    /\ calls = 0
    /\ \E c \in Command_t :
           /\ op' = "wait"
           /\ arg' = <<c, now, m_tAvail>>
           /\ UNCHANGED <<m_powerMode, m_tAvail, m_featureSet, now, calls,
                          result, bus, cmds, rx, stack, response, lastBegin>>

\* One evaluation of the loop condition: the loop is left, or millis() is
\* read again, the clock having advanced.
SendWait ==
    /\ op = "wait"
    /\ IF waitCond(m_tAvail, now)
       THEN /\ Int32(Sub32(now, arg[2])) < MaxPolls
            /\ Step("wait", [Running EXCEPT !.now = Add32(now, U32(1))], result)
       ELSE Step("write", Running, result)

\* The write transaction, the update of m_tAvail and the test of i2c_result.
SendWrite ==
    /\ op = "write"
    /\ \E i2c_result \in {0, 2} :
           Step(IF i2c_result # 0 THEN "returned" ELSE "delay",
                sendWrite(Running, getCommand(arg[1]),
                          commandBytes(getCommand(arg[1]),
                                       getParameterLength(arg[1]),
                                       ParamBytesFor(arg[1])),
                          getDelayMs(arg[1]), now, i2c_result),
                IF i2c_result # 0 THEN "WriteError" ELSE result)

\* delay(getDelayMs(c)) and the test of nResult.
SendDelay ==
    /\ op = "delay"
    /\ Step(IF getResponseLength(arg[1]) = 0 THEN "returned" ELSE "read",
            sendDelay(Running, getCommand(arg[1]), getDelayMs(arg[1])),
            IF getResponseLength(arg[1]) = 0 THEN "Success" ELSE result)

\* requestFrom and the test of nReadFrom.
SendRead ==
    /\ op = "read"
    /\ \E k \in {0, 3 * getResponseLength(arg[1]) - 1,
                  3 * getResponseLength(arg[1])} :
           Step("returned",
                sendRead(Running, getCommand(arg[1]), getResponseLength(arg[1]),
                         IO(0, k, DeviceBytes, <<>>)),
                IF k # 3 * getResponseLength(arg[1])
                THEN "ReadError" ELSE "Success")

NextSend ==
    \/ SendEnter
    \/ SendWait
    \/ SendWrite
    \/ SendDelay
    \/ SendRead

\* The clock keeps advancing and every transport call returns: a statement
\* that can be executed is executed.
SpecSend == InitSend /\ [][NextSend]_vars /\ WF_vars(NextSend)

----------------------------------------------------------------------------
(* Properties *)

Writes == {i \in 1..Len(bus) : bus[i].kind = "write"}
LastWrite == bus[CHOOSE i \in Writes : \A j \in Writes : j <= i]
LastCommand == cmds[Len(cmds)][1]
OneWordOps == {"measure_tvoc_synchronous", "sendAndGetSynchronous"}
\* The read of the last operation was complete: the transport delivered a group.
Delivered == Len(rx) = 3
\* The feature-set word a begin decoded, when its discovery command succeeded.
Discovered == op = "begin" /\ cmds # <<>> /\ cmds[1][2] = "Success"
DiscoveredWord == getbe16(stack)

\* C1: every bus write begins at a clock reading t that is not before the
\* next-available timestamp the call found: int32(t - m_tAvail) >= 0.
C1_WriteWaitsForAvail ==
    \A i \in Writes : Int32(Sub32(bus[i].t, bus[i].avail)) >= 0

\* C2: a one-word-response command that returns Success hands the caller the
\* big-endian value of the first two bytes the transport delivered.
C2_ResponseIsDeliveredWord ==
    (op \in OneWordOps /\ result = "Success") => response = <<getbe16(rx)>>

\* C3: when the transport delivers a group whose third byte is not the
\* checksum of its first two, the one-word-response command returns BadCRC
\* and writes nothing to the caller's output.
C3_BadGroupRejected ==
    (op \in OneWordOps /\ Delivered /\ badGroup(rx, 1))
        => (result = "BadCRC" /\ response = <<>>)

\* C4: begin returns Success only if the power-mode-set command and the
\* continuous-mode initialisation both succeeded.
C4_BeginNeedsBoth ==
    (op = "begin" /\ result = "Success")
        => (Len(cmds) = 3 /\ \A i \in 1..Len(cmds) : cmds[i][2] = "Success")

\* C5: after begin has returned WrongDeviceType on a product version below
\* 6, a measure_tvoc_synchronous call fails without any bus activity.
C5_FaultedBlocksMeasure ==
    (/\ op = "measure_tvoc_synchronous"
     /\ lastBegin # <<>>
     /\ lastBegin[1] = "WrongDeviceType"
     /\ featureSet_getProductType(getbe16(lastBegin[2])) = ProductType_SGPC3
     /\ featureSet_getProductVersion(getbe16(lastBegin[2])) < 6)
        => (result # "Success" /\ bus = <<>>)

\* The response begin decoded names another product or a version below 6.
DiscoveredMismatch ==
    /\ Discovered
    /\ \/ featureSet_getProductType(DiscoveredWord) # ProductType_SGPC3
       \/ featureSet_getProductVersion(DiscoveredWord) < 6

\* C6: when the discovery response decodes to another product type or to a
\* version below 6, begin returns WrongDeviceType, issues no further command
\* and leaves m_featureSet at 0.
C6_MismatchStops ==
    DiscoveredMismatch
        => /\ result = "WrongDeviceType"
           /\ Len(cmds) = 1
           /\ Cardinality(Writes) = 1
           /\ bus[Len(bus)].cmd = getCommand(get_feature_set_version)
           /\ m_featureSet = 0
C6_Witness ==
    /\ DiscoveredMismatch
    /\ featureSet_getProductType(DiscoveredWord) = ProductType_SGPC3
    /\ result = "WrongDeviceType"

\* C7: the capability check of a wrapper returns NotSupported exactly when
\* the session's feature level is below the command's requirement; it
\* succeeds at equality, and always for the feature-discovery command.
C7_GateIffBelow ==
    cmds # <<>>
        => /\ (cmds[1][2] = "NotSupported") <=> (m_featureSet < getFeatureSet(cmds[1][1]))
           /\ cmds[1][1] = get_feature_set_version => cmds[1][2] # "NotSupported"
C7_Witness ==
    /\ op = "sendAndGetSynchronous"
    /\ m_featureSet = getFeatureSet(arg[1])
    /\ m_featureSet > 0
    /\ result = "Success"

\* C8: a typed wrapper called for a command whose requirement exceeds the
\* feature level returns NotSupported, performs no bus write and no bus read,
\* and leaves m_tAvail, m_powerMode and m_featureSet as they were.
C8_GateBeforeExecutor ==
    [][(calls' = calls + 1 /\ m_featureSet < getFeatureSet(arg'[1]))
         => /\ result' = "NotSupported"
            /\ bus' = <<>>
            /\ rx' = <<>>
            /\ m_tAvail' = m_tAvail
            /\ m_powerMode' = m_powerMode
            /\ m_featureSet' = m_featureSet]_vars
C8_Witness ==
    /\ op = "sendSynchronousParam"
    /\ arg[1] = set_absolute_humidity
    /\ result = "NotSupported"
    /\ bus = <<>>

\* C9: set_power_mode_synchronous(mode) records mode when the command
\* returned Success and keeps the previous power mode otherwise; a failed
\* transport write is returned as WriteError.
C9_PowerModeOnSuccessOnly ==
    [][(calls' = calls + 1 /\ op' = "set_power_mode_synchronous")
         => /\ result' = "Success" => m_powerMode' = arg'[2]
            /\ result' # "Success" => m_powerMode' = m_powerMode
            /\ (\E i \in 1..Len(bus') : bus'[i].kind = "write" /\ bus'[i].status # 0)
                   => result' = "WriteError"]_vars
C9_Witness ==
    /\ op = "set_power_mode_synchronous"
    /\ result = "WriteError"
    /\ m_powerMode # arg[2]

\* C10: after an operation that attempted a bus write, m_tAvail is the clock
\* reading of the last write plus the command's delay plus 1, modulo 2^32,
\* whether that write succeeded or failed.
C10_AvailAfterWrite ==
    Writes # {}
        => Sub32(m_tAvail, LastWrite.t) = U32(getDelayMs(LastCommand) + 1)
C10_Witness ==
    /\ Writes # {}
    /\ LastWrite.status # 0
    /\ Less32(m_tAvail, LastWrite.t)

\* The commands that reached sendCommand, in order: the k-th of them made the
\* k-th write on the bus.
Executed == SelectSeq(cmds, LAMBDA e : e[2] # "NotSupported")
WriteOrdinal(i) == Cardinality({j \in Writes : j <= i})
MultiWordOps == {"sendAndGetSynchronous2", "sendAndGetSynchronous3"}

\* C11: after an executed command with delay d, m_tAvail is, in signed
\* 32-bit difference order, at least the m_tAvail the command found plus d.
C11_AvailMonotonic ==
    Writes # {}
        => Int32(Sub32(m_tAvail,
                       Add32(LastWrite.avail, U32(getDelayMs(LastCommand))))) >= 0

\* C12: a write the transport reports as failed makes sendCommand return
\* WriteError at once: no delay and no read request follow it.
C12_WriteErrorImmediate ==
    \A i \in Writes :
        bus[i].status # 0
            => /\ Executed[WriteOrdinal(i)][2] = "WriteError"
               /\ i = Len(bus) \/ bus[i + 1].kind = "write"
               /\ i = Len(bus) => now = bus[i].t
C12_Witness ==
    /\ op = "begin"
    /\ Len(cmds) = 3
    /\ cmds[2][2] = "WriteError"
    /\ \E i \in Writes : bus[i].status # 0 /\ i < Len(bus)

\* C13: a command with n > 0 response words whose write succeeded requests
\* exactly 3 * n bytes from the device, and sendCommand returns ReadError
\* exactly when the transport reports another byte count.
C13_ReadCount ==
    (/\ cmds # <<>>
     /\ getResponseLength(cmds[1][1]) > 0
     /\ Writes # {}
     /\ LastWrite.status = 0)
        => /\ Len(bus) = 3
           /\ bus[3].kind = "read"
           /\ bus[3].addr = 88
           /\ bus[3].n = 3 * getResponseLength(cmds[1][1])
           /\ (cmds[1][2] = "ReadError") <=> (bus[3].status # bus[3].n)
C13_Witness ==
    /\ op = "sendAndGetSynchronous3"
    /\ result = "ReadError"
    /\ bus[Len(bus)].kind = "read"
    /\ bus[Len(bus)].n = 9
    /\ bus[Len(bus)].status = 8

\* C14: when one group of the two-word or three-word response the transport
\* delivered has a checksum byte that does not match its data bytes, the
\* wrapper returns BadCRC and writes none of the caller's outputs.
C14_AnyBadGroupRejected ==
    (/\ op \in MultiWordOps
     /\ Len(rx) = 3 * getResponseLength(arg[1])
     /\ \E k \in 1..getResponseLength(arg[1]) : badGroup(rx, k))
        => (result = "BadCRC" /\ response = <<>>)

\* C16: the bytes written for one command are one write transaction to
\* address 0x58: the command's high byte, its low byte, and, only for a
\* command that carries a parameter, the parameter's high byte, low byte and
\* the checksum of those two bytes.
C16_WireBytes ==
    /\ Cardinality(Writes) <= 1
    /\ \A i \in Writes :
           /\ bus[i].addr = 88
           /\ bus[i].n = Len(bus[i].bytes)
           /\ bus[i].bytes =
                  <<getCommand(arg[1]) \div 256, getCommand(arg[1]) % 256>> \o
                  (IF getParameterLength(arg[1]) = 1
                   THEN <<arg[2] \div 256, arg[2] % 256,
                          crc(<<arg[2] \div 256, arg[2] % 256>>, 255)>>
                   ELSE <<>>)
C16_Witness ==
    /\ op = "sendSynchronousParam"
    /\ arg = <<set_power_mode, 48879>>
    /\ Writes = {1}
    /\ bus[1].bytes = <<32, 159, 190, 239, 146>>

\* C17: a newly constructed session, before any operation is called, has
\* m_featureSet = 0, m_powerMode = Low and m_tAvail = 0.
C17_ConstructedState ==
    calls = 0 => (m_featureSet = 0 /\ m_powerMode = Low /\ m_tAvail = U32(0))

\* C18: handleChipReset(when) sets m_powerMode to Low and m_tAvail to
\* (when + 600) mod 2^32, does nothing on the bus and leaves m_featureSet
\* as it was.
C18_ResetFrame ==
    [][(calls' = calls + 1 /\ op' = "handleChipReset")
         => /\ m_powerMode' = Low
            /\ Sub32(m_tAvail', arg'[1]) = U32(600)
            /\ bus' = <<>>
            /\ rx' = <<>>
            /\ m_featureSet' = m_featureSet]_vars
C18_Witness ==
    /\ op = "handleChipReset"
    /\ m_featureSet = 6
    /\ m_powerMode = Low
    /\ Less32(m_tAvail, arg[1])

\* The input with one bit of its k-th byte flipped.
FlipBit(buf, k, bit) ==
    [buf EXCEPT ![k] = IF Bit(@, bit) = 1 THEN @ - 2 ^ bit ELSE @ + 2 ^ bit]

\* C15: a descriptor built by CommandInit from an opcode, a parameter word
\* count, a response word count (lengths given as 3 bytes per word), a delay
\* and a feature level reads back, through the five accessors, as exactly
\* those five values.
C15_DescriptorRoundTrip ==
    op = "CommandInit" => response = arg
C15_Witness ==
    /\ op = "CommandInit"
    /\ arg = <<16383, 1, 3, 255, 15>>
    /\ response = <<16383, 1, 3, 255, 15>>

\* C19: for every seed 0..255 the checksum of a zero-length input is the
\* seed itself.
C19_EmptyIsSeed ==
    (op = "crc" /\ arg[1] = <<>>) => response = <<arg[2]>>
C19_Witness ==
    /\ op = "crc"
    /\ arg = << <<>>, 172 >>
    /\ response = <<172>>

\* C20: for a nonempty input of one or two bytes and any seed, flipping any
\* single bit of the input changes the checksum.
C20_SingleBitSensitive ==
    (op = "crc" /\ arg[1] # <<>>)
        => \A k \in 1..Len(arg[1]), bit \in 0..7 :
               crc(FlipBit(arg[1], k, bit), arg[2]) # response[1]
C20_Witness ==
    /\ op = "crc"
    /\ arg = << <<190, 239>>, 255 >>
    /\ response = <<146>>
    /\ crc(<<190, 238>>, 255) # 146

Reads == {i \in 1..Len(bus) : bus[i].kind = "read"}

C22_SendCommandFrame ==
    [][calls' = calls + 1
         => (m_featureSet' = m_featureSet /\ m_powerMode' = m_powerMode)]_vars
C22_Witness ==
    /\ op = "sendAndGetSynchronous"
    /\ result = "ReadError"
    /\ m_powerMode = UltraLow
    /\ m_featureSet = 6
    /\ m_tAvail = <<0, 1011>>

\* C23: one call of sendCommand makes at most one bus write and at most one
\* read request whatever the transport returns; a failed write or a short
\* read is returned without being tried again.
C23_NoRetry ==
    cmds # <<>>
        => /\ Cardinality(Writes) <= 1
           /\ Cardinality(Reads) <= 1
           /\ result = "WriteError" => Len(bus) = 1
           /\ result = "ReadError" => (Len(bus) = 3 /\ Reads = {3})
C23_Witness ==
    /\ op = "sendAndGetSynchronous2"
    /\ result = "ReadError"
    /\ Reads = {3}
    /\ bus[3].status = 5

\* C24: a read request is made only after the delay of delayMs(c) that
\* follows the successful write has been slept; a command without response
\* words makes no read request and returns Success.
C24_ReadAfterDelay ==
    (cmds # <<>> /\ Writes # {} /\ LastWrite.status = 0)
        => /\ \A i \in Reads :
                  /\ i = 3
                  /\ bus[1].kind = "write"
                  /\ bus[2].kind = "delay"
                  /\ bus[2].n = getDelayMs(cmds[1][1])
                  /\ Int32(Sub32(bus[3].t, bus[1].t)) >= getDelayMs(cmds[1][1])
           /\ getResponseLength(cmds[1][1]) = 0
                  => (Reads = {} /\ result = "Success")
C24_Witness ==
    /\ op = "sendAndGetSynchronous"
    /\ arg[1] = measure_test
    /\ Reads = {3}
    /\ Sub32(bus[3].t, bus[1].t) = <<0, 220>>

\* C25: in begin, which takes the call as a chip reset at the current time,
\* the feature-discovery command is not written to the bus before 600 ms
\* have passed since begin was called.
C25_BeginWaitsPowerUp ==
    (op = "begin" /\ Writes # {})
        => Int32(Sub32(bus[1].t, Sub32(bus[1].avail, <<0, 600>>))) >= 600

\* The write transactions of a list of bus events, and their commands in order.
WritesOf(b) == {i \in 1..Len(b) : b[i].kind = "write"}
WrittenCommands == [i \in 1..Len(Executed) |-> getCommand(Executed[i][1])]
\* The post-issue delay of the command with a given code.
DelayOfCode(cmd) == getDelayMs(CHOOSE c \in Command_t : getCommand(c) = cmd)

\* C26: in a begin whose discovery response passes the product type and
\* version checks, m_featureSet holds the discovered version before
\* set_power_mode is checked for support, and the commands reach the bus in
\* the order 0x202F, 0x209F, 0x20AE.
C26_BeginOrder ==
    (Discovered /\ ~DiscoveredMismatch)
        => /\ Len(cmds) = 3
           /\ cmds[2][1] = set_power_mode
           /\ cmds[2][2] # "NotSupported"
           /\ m_featureSet = featureSet_getProductVersion(DiscoveredWord)
           /\ [i \in 1..Cardinality(Writes) |->
                   bus[CHOOSE j \in Writes : WriteOrdinal(j) = i].cmd]
                  = <<8239, 8351, 8366>>
C26_Witness ==
    /\ op = "begin"
    /\ result = "Success"
    /\ m_featureSet = 6
    /\ WrittenCommands = <<8239, 8351, 8366>>
    /\ cmds[2][2] = "Success"

\* C27: whenever begin(mode) returns Success, m_powerMode is the mode that
\* was asked for.
C27_BeginSuccessMode ==
    (op = "begin" /\ result = "Success") => m_powerMode = arg[1]

\* C28: once a begin has returned, and after any further calls, m_featureSet
\* is 0 or at least 6, and it is not 0 only if the discovery of the latest
\* begin succeeded and decoded to product type SGPC3.
C28_FeatureLevelRange ==
    lastBegin # <<>>
        => /\ m_featureSet = 0 \/ m_featureSet >= 6
           /\ m_featureSet # 0
                  => /\ lastBegin[2] # <<>>
                     /\ ~badGroup(lastBegin[2], 1)
                     /\ featureSet_getProductType(word(lastBegin[2], 1))
                            = ProductType_SGPC3
C28_Witness ==
    /\ op = "set_power_mode_synchronous"
    /\ lastBegin # <<>>
    /\ lastBegin[1] = "Success"
    /\ m_featureSet = 6

\* C29: of two consecutive commands of which the first was written
\* successfully, the second is written at a clock reading at least
\* delayMs(first) after the reading the first was written at.
C29_CommandSpacing ==
    [][calls' = calls + 1
         => /\ \A i, j \in WritesOf(bus') :
                   (/\ i < j
                    /\ bus'[i].status = 0
                    /\ \A k \in WritesOf(bus') : ~(i < k /\ k < j))
                       => Int32(Sub32(bus'[j].t, bus'[i].t))
                              >= DelayOfCode(bus'[i].cmd)
            /\ (Writes # {} /\ LastWrite.status = 0 /\ WritesOf(bus') # {})
                   => Int32(Sub32(bus'[1].t, LastWrite.t))
                          >= DelayOfCode(LastWrite.cmd)]_vars
\* A begin in which set_power_mode was written 10 ms after the discovery
\* command, failed, and tvoc_init_continuous was written at the same reading.
C29_Witness ==
    /\ op = "begin"
    /\ Writes = {1, 4, 5}
    /\ bus[1].status = 0
    /\ Sub32(bus[4].t, bus[1].t) = <<0, 10>>
    /\ bus[4].status # 0
    /\ bus[5].t = bus[4].t

\* The CRC-8 of polynomial 0x31, most significant bit first, not reflected,
\* without final XOR: n shift steps of the accumulator v.
RECURSIVE crc8Bits(_, _)
crc8Bits(v, n) ==
    IF n = 0 THEN v
    ELSE crc8Bits(IF v >= 128 THEN Xor8((v * 2) % 256, 49) ELSE (v * 2) % 256,
                  n - 1)
RECURSIVE crc8Bitwise(_, _)
crc8Bitwise(buf, seed) ==
    IF buf = <<>> THEN seed
    ELSE crc8Bitwise(Tail(buf), crc8Bits(Xor8(seed, Head(buf)), 8))

\* C30: for every input of 0, 1 or 2 bytes and every seed 0..255, the
\* nibble-table crc equals the bit-by-bit CRC-8 of polynomial 0x31 started
\* from that seed.
C30_CrcIsPoly31 ==
    op = "crc" => response = <<crc8Bitwise(arg[1], arg[2])>>
C30_Witness ==
    /\ op = "crc"
    /\ arg = << <<0, 1>>, 0 >>
    /\ response = <<49>>

\* C31: when the three-word response wrapper returns Success, the 64-bit
\* result is w0 * 2^32 + w1 * 2^16 + w2, where w0, w1, w2 are the big-endian
\* words of the first, second and third response groups, and its high-order
\* 16 bits are zero.  The result is held as its four 16-bit limbs.
C31_ThreeWordResult ==
    (op = "sendAndGetSynchronous3" /\ result = "Success")
        => response = <<0, word(rx, 1), word(rx, 2), word(rx, 3)>>

\* C32: for any 16-bit code and any 8-bit paramLen, responseLen, delayMs and
\* featureSet, each accessor of the descriptor CommandInit builds depends on
\* its own input only: code mod 2^14, (paramLen div 3) mod 2,
\* (responseLen div 3) mod 8, delayMs, featureSet mod 16.
C32_FieldsIndependent ==
    op = "CommandInit(any)"
        => response = <<arg[1] % 16384, (arg[2] \div 3) % 2,
                        (arg[3] \div 3) % 8, arg[4], arg[5] % 16>>
C32_Witness ==
    /\ op = "CommandInit(any)"
    /\ arg = <<65535, 255, 255, 255, 255>>
    /\ response = <<16383, 1, 5, 255, 15>>

\* C33: every sendCommand call, whatever m_tAvail is at entry, eventually
\* returns, and returns one of Success, WriteError and ReadError: there is no
\* state in which the call waits forever.
C33_SendCommandReturns ==
    (op = "wait")
        ~> (op = "returned" /\ result \in {"Success", "WriteError", "ReadError"})
C33_Witness ==
    /\ op = "returned"
    /\ arg[3] = <<32768, 0>>
    /\ result = "Success"
    /\ Reads # {}

====
